---- MODULE Spec2Model ----
(***************************************************************************)
(* Verification model of the wos client library (Wallet of Satoshi API).   *)
(*                                                                         *)
(* Strings are sequences of one-character strings, so that indexing,       *)
(* slicing and concatenation mean what they mean in Go.  uint64 values are *)
(* little-endian tuples of 16-bit limbs, so that 64-bit wrap-around is     *)
(* computed and not assumed away.  Go errors are wrap chains: a sequence   *)
(* whose head is the outermost message and whose tail is what %w wrapped.  *)
(* Bitcoin amounts (float64 in the code) are whole numbers of satoshi; the  *)
(* float64 steps that produce them from millisatoshi round as IEEE 754     *)
(* doubles do.                                                             *)
(* The HTTP service, the random source and the Signer are the environment: *)
(* each of their answers is a choice among the outcomes the code handles.  *)
(***************************************************************************)
EXTENDS Integers, Sequences, FiniteSets, TLC

VARIABLES
  signer,           \* which Signer the Wallet was opened with
  pc,               \* where the caller's current Wallet/Reader call stands
  call,             \* the call in progress or last made: method and arguments
  preq,             \* PostRequest's locals: endpoint, nonce, apiToken, bodyBytes
  signCall,         \* the arguments SignRequest was invoked with
  sigOut,           \* what SignRequest returned
  post,             \* the POST handed to the HTTP transport
  remote,           \* the JSON a RemoteSigner sent to its signing service
  ret,              \* what the call returned
  parentCancelled,  \* the caller-supplied context is done
  cancelCalled,     \* BalanceAndFee's deferred cancel() has run
  opc,              \* BalanceAndFee's orchestrator: none, select, exit, returned
  i,                \* the orchestrator's loop counter
  balance,          \* the orchestrator's local *Balance
  fees,             \* the orchestrator's local *FeeEstimate
  bafRet,           \* what BalanceAndFee returned
  recv,             \* the messages the orchestrator's select has received
  bpc,              \* each branch goroutine's position
  bval,             \* each branch goroutine's locals: result pointer and err
  dec,              \* a direct call of decodeAmount: input and output
  par,              \* a direct call of parseInvoiceAmount: input and output
  sgn               \* two direct calls of SimpleSigner.SignRequest

postVars == <<preq, signCall, sigOut, post, remote>>
bafVars ==
  <<parentCancelled, cancelCalled, opc, i, balance, fees, bafRet, recv, bpc, bval>>
walletVars == <<signer, pc, call, ret, postVars, bafVars>>
pureVars == <<dec, par, sgn>>
vars == <<walletVars, pureVars>>

\* A Go pointer or optional value: Nil, or a one-element sequence
Nil == <<>>
Ptr(v) == <<v>>

(***************************************************************************)
(* Errors                                                                  *)
(***************************************************************************)
NoErr == <<>>

ErrInvalidInvoice == <<"invalid invoice">>
ErrNoAmount == <<"no amount specified in invoice">>
ErrFixedAmount == <<"invoice specifies a fixed amount">>

\* fmt.Errorf(msg) with one %w verb: a new error whose chain continues with
\* the wrapped error; wrapping nil leaves a non-nil error that wraps nothing.
Errorf(msg, wrapped) == <<msg>> \o wrapped

\* errors.Is(err, sentinel)
Is(err, sentinel) == \E k \in 1..Len(err) : err[k] = sentinel[1]

(***************************************************************************)
(* Characters                                                              *)
(***************************************************************************)
Digits == {"0", "1", "2", "3", "4", "5", "6", "7", "8", "9"}

DigitVal(c) ==
  CASE c = "0" -> 0 [] c = "1" -> 1 [] c = "2" -> 2 [] c = "3" -> 3
    [] c = "4" -> 4 [] c = "5" -> 5 [] c = "6" -> 6 [] c = "7" -> 7
    [] c = "8" -> 8 [] c = "9" -> 9

\* strings.ToLower on the letters the model uses
LowerChar(c) ==
  CASE c = "L" -> "l" [] c = "N" -> "n" [] c = "B" -> "b" [] c = "C" -> "c"
    [] c = "T" -> "t" [] OTHER -> c

\* ToLower with a fault: upper-case letters are left as they are
ToLowerKeepsCase(s) == s

ToLower(s) == [k \in 1..Len(s) |-> LowerChar(s[k])]

(***************************************************************************)
(* Unsigned integers of fixed width                                        *)
(***************************************************************************)
LimbBase == 2^16
U64Limbs == 64 \div 16
WideLimbs == 2 * U64Limbs

Zero(w) == [k \in 1..w |-> 0]

Widen(x) == x \o Zero(WideLimbs - Len(x))

RECURSIVE MulAddLimbs(_, _, _, _)
MulAddLimbs(x, k, c, n) ==
  IF n > Len(x) THEN <<c>>
  ELSE LET t == x[n] * k + c
       IN  <<t % LimbBase>> \o MulAddLimbs(x, k, t \div LimbBase, n + 1)

\* x * k + c in the width of x: the low limbs and what was carried out of them
MulAdd(x, k, c) ==
  LET r == MulAddLimbs(x, k, c, 1)
  IN  [val |-> SubSeq(r, 1, Len(x)), carry |-> r[Len(x) + 1]]

\* x * 10^e in the width of x, wrapping as Go's unsigned multiplication does
RECURSIVE MulPow10(_, _)
MulPow10(x, e) == IF e = 0 THEN x ELSE MulPow10(MulAdd(x, 10, 0).val, e - 1)

RECURSIVE DivLimbs(_, _, _, _)
DivLimbs(x, k, n, rem) ==
  IF n = 0 THEN [q |-> <<>>, r |-> rem]
  ELSE LET t == rem * LimbBase + x[n]
           rest == DivLimbs(x, k, n - 1, t % k)
       IN  [q |-> Append(rest.q, t \div k), r |-> rest.r]

\* quotient and remainder of x by a small k
DivMod(x, k) == DivLimbs(x, k, Len(x), 0)

\* x < k for a small k
LessThan(x, k) == x[1] < k /\ \A j \in 2..Len(x) : x[j] = 0

(***************************************************************************)
(* strconv.ParseUint(s, 10, 64)                                            *)
(***************************************************************************)
ErrSyntax == <<"strconv: invalid syntax">>
ErrRange == <<"strconv: value out of range">>

RECURSIVE ParseUintFrom(_, _, _)
ParseUintFrom(s, k, n) ==
  IF k > Len(s) THEN [err |-> NoErr, val |-> n]
  ELSE IF s[k] \notin Digits THEN [err |-> ErrSyntax, val |-> Zero(U64Limbs)]
  ELSE LET r == MulAdd(n, 10, DigitVal(s[k]))
       IN  IF r.carry # 0 THEN [err |-> ErrRange, val |-> Zero(U64Limbs)]
           ELSE ParseUintFrom(s, k + 1, r.val)

ParseUint(s) ==
  IF Len(s) = 0 THEN [err |-> ErrSyntax, val |-> Zero(U64Limbs)]
  ELSE ParseUintFrom(s, 1, Zero(U64Limbs))

(***************************************************************************)
(* decodeAmount: the amount suffix of an invoice, in millisatoshi          *)
(***************************************************************************)
Failed(err) == [err |-> err, msat |-> Zero(U64Limbs)]

decodeAmount(amount) ==
  IF Len(amount) < 1 THEN Failed(<<"amount must be non-empty">>)
  ELSE LET lastHRPChar == amount[Len(amount)]
       IN  IF lastHRPChar \in Digits
           THEN LET btc == ParseUint(amount)
                IN  IF btc.err # NoErr THEN Failed(btc.err)
                    ELSE [err |-> NoErr, msat |-> MulPow10(btc.val, 11)]
           ELSE LET num == SubSeq(amount, 1, Len(amount) - 1)
                    am == ParseUint(num)
                IN  IF Len(num) < 1 THEN Failed(<<"number must be non-empty">>)
                    ELSE IF am.err # NoErr THEN Failed(am.err)
                    ELSE CASE lastHRPChar = "p" ->
                                IF LessThan(am.val, 10)
                                THEN Failed(<<"minimum amount is 10p">>)
                                ELSE IF DivMod(am.val, 10).r # 0
                                THEN Failed(<<"amount not expressible in msat">>)
                                ELSE [err |-> NoErr, msat |-> DivMod(am.val, 10).q]
                           [] lastHRPChar = "n" ->
                                [err |-> NoErr, msat |-> MulPow10(am.val, 2)]
                           [] lastHRPChar = "u" ->
                                [err |-> NoErr, msat |-> MulPow10(am.val, 5)]
                           [] lastHRPChar = "m" ->
                                [err |-> NoErr, msat |-> MulPow10(am.val, 8)]
                           [] OTHER -> Failed(<<"unknown multiplier">>)

(***************************************************************************)
(* bech32.DecodeNoLimit: the human-readable part of an encoded string.     *)
(* The data part with its checksum is one symbol: GoodData stands for a    *)
(* data part whose characters and checksum are valid, BadData for one      *)
(* whose checksum is not.  The separator is the last "1" of the string.    *)
(***************************************************************************)
GoodData == "<data+checksum>"
BadData == "<data+bad checksum>"

LastIndexOf(s, c) ==
  IF \E k \in 1..Len(s) : s[k] = c
  THEN CHOOSE k \in 1..Len(s) : s[k] = c /\ \A j \in (k + 1)..Len(s) : s[j] # c
  ELSE 0

DecodeNoLimit(encoded) ==
  LET sep == LastIndexOf(encoded, "1")
  IN  IF sep < 2 \/ sep + 1 # Len(encoded) \/ encoded[Len(encoded)] # GoodData
      THEN [err |-> <<"bech32 decode error">>, hrp |-> <<>>]
      ELSE [err |-> NoErr, hrp |-> SubSeq(encoded, 1, sep - 1)]

(***************************************************************************)
(* parseInvoiceAmount.  The float64 bitcoin amount it returns is always    *)
(* math.Round(float64(msat)/1000) / 10^8; the model keeps the numerator, a *)
(* whole number of satoshi, in sat.                                        *)
(***************************************************************************)
\* strings.IndexAny(s, "1234567890"), counted from 1; 0 when there is none
IndexAnyDigit(s) ==
  IF \E k \in 1..Len(s) : s[k] \in Digits
  THEN CHOOSE k \in 1..Len(s) : s[k] \in Digits /\ \A j \in 1..(k - 1) : s[j] \notin Digits
  ELSE 0

\* the number of bits of a small number
RECURSIVE BitLen(_)
BitLen(n) == IF n = 0 THEN 0 ELSE 1 + BitLen(n \div 2)

\* the top 16 bits of a number below 2^64
TopLimb(x) == x[U64Limbs]

\* IEEE 754 round-to-nearest, ties to even: the quotient q of a division by
\* k that left the remainder r, rounded to a whole number
NearestEven(q, r, k) ==
  IF 2 * r > k \/ (2 * r = k /\ q[1] % 2 = 1) THEN MulAdd(q, 1, 1).val ELSE q

\* float64(msat): a uint64 below 2^53 is kept; a larger one is rounded to
\* 53 significant bits.  The result is a whole number, at most 2^64.
Float64(x) ==
  IF TopLimb(x) < 2^(53 - 48) THEN Widen(x)
  ELSE LET k == 2^(BitLen(TopLimb(x)) - (53 - 48))
           d == DivMod(x, k)
       IN  MulAdd(Widen(NearestEven(d.q, d.r, k)), k, 0).val

\* the number of bits of x
LimbsBitLen(x) ==
  IF \A k \in 1..Len(x) : x[k] = 0 THEN 0
  ELSE LET n == CHOOSE k \in 1..Len(x) : x[k] # 0 /\ \A j \in (k + 1)..Len(x) : x[j] = 0
       IN  16 * (n - 1) + BitLen(x[n])

\* x * 2^s
RECURSIVE ShiftLeft(_, _)
ShiftLeft(x, s) ==
  IF s > 14 THEN ShiftLeft(MulAdd(x, 2^14, 0).val, s - 14)
  ELSE MulAdd(x, 2^s, 0).val

\* f / 1000 in float64: the double nearest to the quotient, as the whole
\* number m of 53 bits and the exponent s of m / 2^s (of m * 2^-s when s is
\* negative)
FloatDiv1000(f) ==
  LET pre == IF LimbsBitLen(DivMod(f, 1000).q) = 0 THEN 10 ELSE 0
      len == LimbsBitLen(DivMod(ShiftLeft(f, pre), 1000).q)
      s == pre + 53 - len
      wide(k) == LET d == DivMod(f, k)
                 IN  [m |-> NearestEven(d.q, d.r, k), s |-> s]
      d == DivMod(ShiftLeft(f, s), 1000)
  IN  IF f = Zero(WideLimbs) THEN [m |-> f, s |-> 0]
      ELSE IF s < 0 THEN wide(1000 * 2^(0 - s))
      ELSE [m |-> NearestEven(d.q, d.r, 1000), s |-> s]

\* n / 2^s rounded to a whole number, halves up, for s >= 1
RECURSIVE RoundShift(_, _)
RoundShift(n, s) ==
  IF s > 15 THEN RoundShift(DivMod(n, 2^15).q, s - 15)
  ELSE LET d == DivMod(DivMod(n, 2^(s - 1)).q, 2)
       IN  MulAdd(d.q, 1, d.r).val

\* math.Round: the nearest whole number, halves away from zero
MathRound(x) ==
  IF x.s <= 0 THEN MulAdd(x.m, 2^(0 - x.s), 0).val ELSE RoundShift(x.m, x.s)

\* math.Round(float64(msat) / 1000), a whole number of satoshi
RoundToSat(msat) == SubSeq(MathRound(FloatDiv1000(Float64(msat))), 1, U64Limbs)

NoAmountOf(err) == [err |-> err, sat |-> Zero(U64Limbs)]

parseInvoiceAmount(invoice) ==
  LET d == DecodeNoLimit(invoice)
      hrp == d.hrp
      firstNumber == IndexAnyDigit(hrp)
      chainPrefix == ToLower(SubSeq(hrp, 3, firstNumber - 1))
      a == decodeAmount(SubSeq(hrp, firstNumber, Len(hrp)))
  IN  IF d.err # NoErr THEN NoAmountOf(Errorf("%w: bech32", ErrInvalidInvoice))
      ELSE IF Len(hrp) < 3 THEN NoAmountOf(ErrInvalidInvoice)
      ELSE IF SubSeq(hrp, 1, 2) # <<"l", "n">> THEN NoAmountOf(ErrInvalidInvoice)
      ELSE IF firstNumber = 0 THEN NoAmountOf(ErrNoAmount)
      ELSE IF chainPrefix # <<"b", "c">>
      THEN NoAmountOf(Errorf("%w: invoice is not for bitcoin mainnet", ErrInvalidInvoice))
      ELSE IF a.err # NoErr
      THEN NoAmountOf(Errorf("%w: invalid amount", ErrInvalidInvoice))
      ELSE [err |-> NoErr, sat |-> RoundToSat(a.msat)]

\* a satoshi count as a number of the model; the wallet's invoices stay
\* below 2^31 satoshi
SatInt(x) == x[1] + x[2] * LimbBase

(***************************************************************************)
(* Signing                                                                 *)
(***************************************************************************)
\* hmac.New(sha256.New, key) over msg: an ideal MAC, equal exactly when key
\* and message are equal
HmacSha256(key, msg) == [key |-> key, msg |-> msg]

\* hex.EncodeToString
HexEncode(bytes) == <<"hex", bytes>>

\* SignRequest with a fault: the nonce is hashed before the endpoint
SignRequestNonceFirst(apiSecret, endpoint, nonce, apiToken, requestBody) ==
  HmacSha256(apiSecret, nonce \o endpoint \o apiToken \o requestBody)

\* SimpleSigner.SignRequest
SignRequest(apiSecret, endpoint, nonce, apiToken, requestBody) ==
  HmacSha256(apiSecret, endpoint \o nonce \o apiToken \o requestBody)

ErrRefused == <<"signer refused">>
ErrRemoteStatus == <<"received status code 500 from remote signer">>

\* RemoteSigner.SignRequest up to its POST: json.Marshal of the map it
\* builds from its parameters, keys in sorted order.  Its parameters are
\* declared in the order endpoint, nonce, requestBody, apiToken.
RemoteSignerJSON(endpoint, nonce, requestBody, apiToken) ==
  <<"{", "\"body\":">> \o requestBody
  \o <<",\"endpoint\":">> \o endpoint
  \o <<",\"nonce\":">> \o nonce
  \o <<"}">>

\* What the signing service answers: it holds the secret and the token and
\* signs the endpoint, nonce and body it was sent, or answers another status.
RemoteSignerOutcomes(apiSecret, apiToken, endpoint, nonce, requestBody) ==
  { [err |-> NoErr,
     sig |-> Ptr(SignRequest(apiSecret, endpoint, nonce, apiToken, requestBody))],
    [err |-> ErrRemoteStatus, sig |-> Nil] }

Signers == {"simple", "policy", "remote"}

\* What a Signer may return for a request: SimpleSigner always signs; a
\* Signer with a policy may also refuse; a RemoteSigner returns what its
\* service answers.  The Signer interface passes the arguments by position:
\* endpoint, nonce, apiToken, requestBody.
SignerOutcomes(kind, apiSecret, c) ==
  LET signed == [err |-> NoErr,
                 sig |-> Ptr(SignRequest(apiSecret, c.endpoint, c.nonce, c.apiToken, c.requestBody))]
      sent(endpoint, nonce, requestBody, apiToken) ==
        RemoteSignerOutcomes(apiSecret, c.apiToken, endpoint, nonce, requestBody)
  IN  IF kind = "simple" THEN {signed}
      ELSE IF kind = "policy" THEN {signed, [err |-> ErrRefused, sig |-> Nil]}
      ELSE sent(c.endpoint, c.nonce, c.apiToken, c.requestBody)

(***************************************************************************)
(* base64.StdEncoding.EncodeToString                                       *)
(***************************************************************************)
Base64Chars ==
  << "A","B","C","D","E","F","G","H","I","J","K","L","M","N","O","P",
     "Q","R","S","T","U","V","W","X","Y","Z","a","b","c","d","e","f",
     "g","h","i","j","k","l","m","n","o","p","q","r","s","t","u","v",
     "w","x","y","z","0","1","2","3","4","5","6","7","8","9","+","/" >>

B64(n) == Base64Chars[n + 1]

RECURSIVE Base64From(_, _)
Base64From(b, k) ==
  LET left == Len(b) - k + 1
  IN  IF left <= 0 THEN <<>>
      ELSE IF left = 1
      THEN <<B64(b[k] \div 4), B64((b[k] % 4) * 16), "=", "=">>
      ELSE IF left = 2
      THEN <<B64(b[k] \div 4), B64((b[k] % 4) * 16 + b[k + 1] \div 16),
             B64((b[k + 1] % 16) * 4), "=">>
      ELSE <<B64(b[k] \div 4), B64((b[k] % 4) * 16 + b[k + 1] \div 16),
             B64((b[k + 1] % 16) * 4 + b[k + 2] \div 64), B64(b[k + 2] % 64)>>
           \o Base64From(b, k + 3)

Base64(b) == Base64From(b, 1)

(***************************************************************************)
(* json.Marshal of the two request bodies                                  *)
(***************************************************************************)
\* createInvoiceRequest: amount always, description and expiry omitempty
MarshalCreateInvoice(r) ==
  <<"{", "\"amount\":", ToString(r.Amount)>>
  \o (IF r.Description # <<>> THEN <<",\"description\":">> \o r.Description ELSE <<>>)
  \o (IF r.Expiry # 0 THEN <<",\"expiry\":", ToString(r.Expiry)>> ELSE <<>>)
  \o <<"}">>

\* sendPaymentRequest: address and currency always, the rest omitempty
MarshalSendPayment(r) ==
  <<"{", "\"address\":">> \o r.Address \o <<",\"currency\":", r.Currency>>
  \o (IF r.Amount # 0 THEN <<",\"amount\":", ToString(r.Amount)>> ELSE <<>>)
  \o (IF r.Description # <<>> THEN <<",\"description\":">> \o r.Description ELSE <<>>)
  \o (IF r.MaxLightning THEN <<",\"sendMaxLightning\":true">> ELSE <<>>)
  \o (IF r.MaxBitcoin THEN <<",\"sendMaxBtc\":true">> ELSE <<>>)
  \o <<"}">>

(***************************************************************************)
(* The wallet, its collaborators and the arguments of its calls            *)
(***************************************************************************)
BaseURL == <<"https://www.livingroomofsatoshi.com">>
CreateInvoiceEndpoint == <<"/api/v1/wallet/createInvoice">>
PaymentEndpoint == <<"/api/v1/wallet/payment">>

ApiToken == <<"<api token>">>
ApiSecret == <<"<api secret>">>

NonceLen == 16

\* what crypto/rand may fill the nonce with; RandFail is rand.Read failing
NonceDraws == {[k \in 1..NonceLen |-> 0], [k \in 1..NonceLen |-> 255]}
RandFail == <<>>

Inv(hrp) == hrp \o <<"1", GoodData>>

OnChainAddress == Inv(<<"b", "c">>)

VariableInvoice == Inv(<<"l", "n", "b", "c">>)
FixedInvoice == Inv(<<"l", "n", "b", "c", "1", "m">>)
TinyInvoice == Inv(<<"l", "n", "b", "c", "1", "0", "p">>)
TestnetInvoice == Inv(<<"l", "n", "t", "b", "1", "m">>)
TestnetVariableInvoice == Inv(<<"l", "n", "t", "b">>)

Destinations ==
  { VariableInvoice, FixedInvoice, TinyInvoice, TestnetInvoice,
    TestnetVariableInvoice, OnChainAddress,
    Inv(<<"l", "n", "b", "c", "1", "x">>),
    Inv(<<"l", "n">>),
    <<"l", "n", "b", "c", "1", "m", "1", BadData>>,
    <<"l", "n", "b", "c", GoodData>> }

Descriptions == {<<>>, <<"memo">>}

\* amounts are whole satoshi; a bitcoin amount is amount / 10^8
Amounts == {0, 1000}

\* InvoiceOptions, Expiry in milliseconds; Nil is a nil *InvoiceOptions
InvoiceOptionsArgs ==
  {Nil} \cup {Ptr(o) : o \in [Amount : {-1, 0, 1000}, Description : Descriptions,
                              Expiry : {-1000, 0, 90500}]}

Balances ==
  { [Confirmed |-> 0, Unconfirmed |-> 0],
    [Confirmed |-> 5000, Unconfirmed |-> 700],
    [Confirmed |-> 100000000, Unconfirmed |-> 0] }

\* BtcSendCommissionPercent is a fraction of the balance: num / den
FeeEstimates ==
  { [BtcFixedFee |-> 10000, BtcSendCommissionPercent |-> [num |-> 1, den |-> 100],
     MaxLightningFee |-> 2000],
    [BtcFixedFee |-> 0, BtcSendCommissionPercent |-> [num |-> 1, den |-> 1],
     MaxLightningFee |-> 5000] }

ErrRand == <<"crypto/rand: read failed">>
ErrNetwork == <<"network error">>
ErrStatus == <<"received status 500">>
ErrJSON == <<"json: cannot unmarshal">>
ErrCanceled == <<"context canceled">>

Branches == {"balance", "fee"}

NoRead == [res |-> Nil, err |-> NoErr]

WalletInit ==
  /\ signer \in Signers
  /\ pc = "idle" /\ call = Nil /\ ret = Nil
  /\ preq = Nil /\ signCall = Nil /\ sigOut = Nil /\ post = Nil /\ remote = Nil
  /\ parentCancelled = FALSE /\ cancelCalled = FALSE
  /\ opc = "none" /\ i = 0 /\ balance = Nil /\ fees = Nil /\ bafRet = Nil
  /\ recv = <<>>
  /\ bpc = [b \in Branches |-> "none"]
  /\ bval = [b \in Branches |-> NoRead]

\* The caller makes one call at a time, and the next one when the goroutines
\* of the last have ended: they share nothing with a later call.
Quiet == pc = "idle" /\ \A b \in Branches : bpc[b] \in {"none", "done"}

NoBaf ==
  /\ parentCancelled' = FALSE /\ cancelCalled' = FALSE
  /\ opc' = "none" /\ i' = 0 /\ balance' = Nil /\ fees' = Nil /\ bafRet' = Nil
  /\ recv' = <<>>
  /\ bpc' = [b \in Branches |-> "none"]
  /\ bval' = [b \in Branches |-> NoRead]

NoPost ==
  preq' = Nil /\ signCall' = Nil /\ sigOut' = Nil /\ post' = Nil /\ remote' = Nil

\* the call returns (val, err) to the caller
Return(err, val) ==
  pc' = "idle" /\ ret' = Ptr([err |-> err, val |-> val, panic |-> FALSE])

\* the call dereferences a nil pointer
Panic ==
  pc' = "idle" /\ ret' = Ptr([err |-> NoErr, val |-> Nil, panic |-> TRUE])

Called(method, label, args) ==
  call' = Ptr([method |-> method, label |-> label, args |-> args])

\* parseInvoiceAmount of each invoice a caller may pass, computed once
ParsedAmounts == [d \in Destinations |-> parseInvoiceAmount(d)]

(***************************************************************************)
(* Wallet.PostRequest, in three steps: up to the invocation of the signer, *)
(* the signer's return, and the transmission with what the caller of       *)
(* PostRequest (newPayment, NewInvoice) does with the response.            *)
(***************************************************************************)
Marshal(body) ==
  IF body.type = "createInvoiceRequest" THEN MarshalCreateInvoice(body)
  ELSE MarshalSendPayment(body)

PostRequest(label, endpoint, body) ==
  \E rnd \in NonceDraws \cup {RandFail} :
    IF rnd = RandFail
    THEN Return(Errorf(label, Errorf("generating nonce: %w", ErrRand)), Nil) /\ NoPost
    ELSE LET bodyBytes == Marshal(body)
             nonce == Base64(rnd)
         IN  /\ pc' = "sign" /\ ret' = Nil
             /\ preq' = Ptr([endpoint |-> endpoint, body |-> body,
                             bodyBytes |-> bodyBytes, nonce |-> nonce])
             /\ signCall' = Ptr([endpoint |-> endpoint, nonce |-> nonce,
                                 apiToken |-> ApiToken, requestBody |-> bodyBytes])
             /\ sigOut' = Nil /\ post' = Nil /\ remote' = Nil

\* SignFailed with a fault: the signer's error is not looked at
SignFailedIgnored(out) == FALSE

\* if err != nil after SignRequest
SignFailed(out) == out.err # NoErr

SignerReturns ==
  /\ pc = "sign"
  /\ remote' = IF signer = "remote"
               THEN LET c == signCall[1]
                    IN  Ptr(RemoteSignerJSON(c.endpoint, c.nonce, c.apiToken, c.requestBody))
               ELSE Nil
  /\ \E out \in SignerOutcomes(signer, ApiSecret, signCall[1]) :
       /\ sigOut' = Ptr(out)
       /\ IF SignFailed(out)
          THEN Return(Errorf(call[1].label, Errorf("Signer returned error: %w", out.err)), Nil)
          ELSE pc' = "send" /\ ret' = ret
  /\ UNCHANGED <<signer, call, preq, signCall, post, bafVars, pureVars>>

\* the request PostRequest builds once it holds a signature
NewPost(p, hmacSignature) ==
  [method |-> "POST", url |-> BaseURL \o p.endpoint, body |-> p.bodyBytes,
   header |-> [UserAgent |-> <<>>, ContentType |-> <<"application/json">>,
               ApiToken |-> ApiToken, Nonce |-> p.nonce,
               Signature |-> HexEncode(hmacSignature)]]

Responses == {"network error", "status 500", "invalid json", "ok"}

ResponseErr(label, resp) ==
  CASE resp = "network error" -> Errorf(label, Errorf("POST request failed: %w", ErrNetwork))
    [] resp = "status 500" -> Errorf(label, Errorf("POST: %w", ErrStatus))
    [] resp = "invalid json" -> Errorf("invalid response: %w", ErrJSON)
    [] OTHER -> NoErr

TransportDo ==
  /\ pc = "send"
  /\ post' = Ptr(NewPost(preq[1], sigOut[1].sig))
  /\ \E resp \in Responses :
       Return(ResponseErr(call[1].label, resp),
              IF resp = "ok" THEN Ptr("response") ELSE Nil)
  /\ UNCHANGED <<signer, call, preq, signCall, sigOut, remote, bafVars, pureVars>>

newPayment(method, req) == PostRequest(method, PaymentEndpoint, req)

sendPaymentRequest(address, currency, amount, description, maxLightning, maxBitcoin) ==
  [type |-> "sendPaymentRequest", Address |-> address, Currency |-> currency,
   Amount |-> amount, Description |-> description,
   MaxLightning |-> maxLightning, MaxBitcoin |-> maxBitcoin]

(***************************************************************************)
(* The write calls that need no read                                       *)
(***************************************************************************)
NewInvoice ==
  /\ Quiet
  /\ \E opts \in InvoiceOptionsArgs :
       LET o == IF opts = Nil
                THEN [Amount |-> 0, Description |-> <<>>, Expiry |-> 0]
                ELSE opts[1]
           request == [type |-> "createInvoiceRequest", Amount |-> o.Amount,
                       Description |-> o.Description, Expiry |-> o.Expiry \div 1000]
       IN  /\ Called("NewInvoice", "NewInvoice", <<opts>>)
           /\ IF o.Amount < 0
              THEN Return(<<"invalid invoice amount">>, Nil) /\ NoPost
              ELSE IF o.Expiry < 0
              THEN Return(<<"invalid invoice expiry time">>, Nil) /\ NoPost
              ELSE PostRequest("NewInvoice", CreateInvoiceEndpoint, request)
  /\ NoBaf
  /\ UNCHANGED <<signer, pureVars>>

\* PayInvoiceRequest with a fault: the decoded amount is left out
PayInvoiceRequestNoAmount(invoice, description, amount) ==
  sendPaymentRequest(invoice, "LIGHTNING", 0, description, FALSE, FALSE)

\* the request PayInvoice hands to newPayment
PayInvoiceRequest(invoice, description, amount) ==
  sendPaymentRequest(invoice, "LIGHTNING", amount, description, FALSE, FALSE)

PayInvoice ==
  /\ Quiet
  /\ \E invoice \in Destinations, description \in Descriptions :
       LET amount == ParsedAmounts[invoice]
       IN  /\ Called("PayInvoice", "PayInvoice", <<invoice, description>>)
           /\ IF amount.err # NoErr
              THEN Return(Errorf("PayInvoice: %w", amount.err), Nil) /\ NoPost
              ELSE newPayment("PayInvoice",
                              PayInvoiceRequest(invoice, description, SatInt(amount.sat)))
  /\ NoBaf
  /\ UNCHANGED <<signer, pureVars>>

PayVariableInvoice ==
  /\ Quiet
  /\ \E invoice \in Destinations, description \in Descriptions, amount \in Amounts :
       LET err == ParsedAmounts[invoice].err
       IN  /\ Called("PayVariableInvoice", "PayInvoice", <<invoice, description>>)
           /\ IF err # NoErr /\ ~Is(err, ErrNoAmount)
              THEN Return(Errorf("PayVariableInvoice: %w", err), Nil) /\ NoPost
              ELSE IF err = NoErr
              THEN Return(Errorf("PayVariableInvoice: %w", err), Nil) /\ NoPost
              ELSE newPayment("PayInvoice",
                              sendPaymentRequest(invoice, "LIGHTNING", amount,
                                                 description, FALSE, FALSE))
  /\ NoBaf
  /\ UNCHANGED <<signer, pureVars>>

PayOnChain ==
  /\ Quiet
  /\ \E address \in {OnChainAddress}, amount \in Amounts, description \in Descriptions :
       /\ Called("PayOnChain", "PayOnChain", <<address, description>>)
       /\ newPayment("PayOnChain",
                     sendPaymentRequest(address, "BTC", amount, description, FALSE, FALSE))
  /\ NoBaf
  /\ UNCHANGED <<signer, pureVars>>

(***************************************************************************)
(* Reader.BalanceAndFee: two goroutines and the orchestrator's loop.       *)
(* The three channels are unbuffered, so a send and its receive are one    *)
(* step of the two parties.  A select with several ready cases takes any.  *)
(***************************************************************************)
\* ctx.Done() of the context derived by context.WithCancel(ctx)
CtxDone == parentCancelled \/ cancelCalled

\* DoneReady with a fault: the result is sent with a bare channel send
DoneReadyErrOnly(stage) == stage = "err" /\ CtxDone

\* the `case <-ctx.Done()` of a branch's select: stage is "err" for the
\* select around the send on errChan, "res" for the one around the result
DoneReady(stage) == CtxDone

StartBalanceAndFee ==
  /\ pc' = "baf" /\ ret' = Nil /\ NoPost
  /\ parentCancelled' = FALSE /\ cancelCalled' = FALSE
  /\ opc' = "select" /\ i' = 0 /\ balance' = Nil /\ fees' = Nil /\ bafRet' = Nil
  /\ recv' = <<>>
  /\ bpc' = [b \in Branches |-> "reading"]
  /\ bval' = [b \in Branches |-> NoRead]

\* what rdr.Balance(ctx) or rdr.FeeEstimate(ctx, ...) may return
ReadOutcomes(b) ==
  LET name == IF b = "balance" THEN "Balance: %w" ELSE "FeeEstimate: %w"
      values == IF b = "balance" THEN Balances ELSE FeeEstimates
      failed(e) == [res |-> Nil, err |-> e]
  IN  {[res |-> Ptr(v), err |-> NoErr] : v \in values}
      \cup {failed(Errorf(name, Errorf("GET request failed: %w", ErrNetwork))),
            failed(Errorf("invalid response: %w", ErrJSON))}
      \cup (IF CtxDone
            THEN {failed(Errorf(name, Errorf("GET request failed: %w", ErrCanceled)))}
            ELSE {})

ReadReturns(b) ==
  /\ bpc[b] = "reading"
  /\ \E out \in ReadOutcomes(b) :
       /\ bval' = [bval EXCEPT ![b] = out]
       /\ bpc' = [bpc EXCEPT ![b] = IF out.err # NoErr THEN "sendErr" ELSE "sendRes"]
  /\ UNCHANGED <<signer, pc, call, ret, postVars, pureVars>>
  /\ UNCHANGED <<parentCancelled, cancelCalled, opc, i, balance, fees, bafRet, recv>>

\* ErrResult with a fault: the received error is not the one returned
ErrResultDropped(bal, fee, err) == [balance |-> bal, fees |-> fee, err |-> NoErr]

\* case err := <-errChan: return balance, fees, err
ErrResult(bal, fee, err) == [balance |-> bal, fees |-> fee, err |-> err]

\* branch b sends its error and the orchestrator receives it
SendErr(b) ==
  /\ bpc[b] = "sendErr" /\ opc = "select"
  /\ bafRet' = Ptr(ErrResult(balance, fees, bval[b].err))
  /\ opc' = "exit"
  /\ bpc' = [bpc EXCEPT ![b] = "sendRes"]
  /\ UNCHANGED <<signer, pc, call, ret, postVars, pureVars>>
  /\ recv' = Append(recv, [chan |-> "errChan", from |-> b, val |-> bval[b].err])
  /\ UNCHANGED <<parentCancelled, cancelCalled, i, balance, fees, bval>>

\* branch b's select around the error send takes <-ctx.Done()
SkipErr(b) ==
  /\ bpc[b] = "sendErr" /\ DoneReady("err")
  /\ bpc' = [bpc EXCEPT ![b] = "sendRes"]
  /\ UNCHANGED <<signer, pc, call, ret, postVars, pureVars>>
  /\ UNCHANGED <<parentCancelled, cancelCalled, opc, i, balance, fees, bafRet, recv, bval>>

\* the channel a branch sends its result on
ChanOf(b) == IF b = "balance" THEN "balanceChan" ELSE "feeChan"

\* Receive with a fault: a message is stored whichever channel it came on
ReceiveAny(ch, var, cur, msg) == msg

\* `case balance = <-balanceChan:` and `case fees = <-feeChan:`: the value
\* of the variable var, which held cur, after msg was received on ch
Receive(ch, var, cur, msg) ==
  IF (ch = "balanceChan" /\ var = "balance") \/ (ch = "feeChan" /\ var = "fees")
  THEN msg ELSE cur

\* LoopEnds with a fault: the loop ends after its first pass
LoopEndsEarly(n) == ~(n < 1)

\* `for i := 0; i < 2; i++`: the loop ends when i has become n
LoopEnds(n) == ~(n < 2)

\* branch b sends its result pointer (nil after an error) and the
\* orchestrator receives it; after the second one the loop ends
SendRes(b) ==
  /\ bpc[b] = "sendRes" /\ opc = "select"
  /\ balance' = Receive(ChanOf(b), "balance", balance, bval[b].res)
  /\ fees' = Receive(ChanOf(b), "fees", fees, bval[b].res)
  /\ i' = i + 1
  /\ IF ~LoopEnds(i + 1)
     THEN opc' = "select" /\ bafRet' = bafRet
     ELSE opc' = "exit" /\ bafRet' = Ptr([balance |-> balance', fees |-> fees', err |-> NoErr])
  /\ bpc' = [bpc EXCEPT ![b] = "done"]
  /\ UNCHANGED <<signer, pc, call, ret, postVars, pureVars>>
  /\ recv' = Append(recv, [chan |-> ChanOf(b), from |-> b, val |-> bval[b].res])
  /\ UNCHANGED <<parentCancelled, cancelCalled, bval>>

\* branch b's select around the result send takes <-ctx.Done()
SkipRes(b) ==
  /\ bpc[b] = "sendRes" /\ DoneReady("res")
  /\ bpc' = [bpc EXCEPT ![b] = "done"]
  /\ UNCHANGED <<signer, pc, call, ret, postVars, pureVars>>
  /\ UNCHANGED <<parentCancelled, cancelCalled, opc, i, balance, fees, bafRet, recv, bval>>

\* BalanceAndFee returns; its deferred cancel() runs
OrchReturn ==
  /\ opc = "exit"
  /\ opc' = "returned"
  /\ cancelCalled' = TRUE
  /\ UNCHANGED <<signer, pc, call, ret, postVars, pureVars>>
  /\ UNCHANGED <<parentCancelled, i, balance, fees, bafRet, recv, bpc, bval>>

\* the caller's context is cancelled or times out during the call
CancelCaller ==
  /\ pc = "baf" /\ opc \in {"select", "exit"} /\ ~parentCancelled
  /\ parentCancelled' = TRUE
  /\ UNCHANGED <<signer, pc, call, ret, postVars, pureVars>>
  /\ UNCHANGED <<cancelCalled, opc, i, balance, fees, bafRet, recv, bpc, bval>>

(***************************************************************************)
(* The calls that read first                                               *)
(***************************************************************************)
BalanceAndFee ==
  /\ Quiet
  /\ \E addressOrInvoice \in {VariableInvoice, OnChainAddress} :
       Called("BalanceAndFee", "BalanceAndFee", <<addressOrInvoice>>)
  /\ StartBalanceAndFee
  /\ UNCHANGED <<signer, pureVars>>

BalanceAndFeeDone ==
  /\ pc = "baf" /\ opc = "returned" /\ call[1].method = "BalanceAndFee"
  /\ Return(bafRet[1].err, Ptr([balance |-> bafRet[1].balance, fees |-> bafRet[1].fees]))
  /\ UNCHANGED <<signer, call, postVars, bafVars, pureVars>>

SweepLightning ==
  /\ Quiet
  /\ \E invoice \in Destinations, description \in Descriptions :
       /\ Called("SweepLightning", "SweepLightning", <<invoice, description>>)
       /\ IF ~Is(ParsedAmounts[invoice].err, ErrNoAmount)
          THEN Return(Errorf("SweepLightning: %w", ErrFixedAmount), Nil) /\ NoPost /\ NoBaf
          ELSE StartBalanceAndFee
  /\ UNCHANGED <<signer, pureVars>>

\* LightningSweepAmount with a fault: an amount below zero is raised to zero
LightningSweepAmountFloored(fee, bal) ==
  IF bal.Confirmed < fee.MaxLightningFee THEN 0
  ELSE bal.Confirmed - fee.MaxLightningFee

\* Amount: balance.Confirmed - fees.MaxLightningFee
LightningSweepAmount(fee, bal) == bal.Confirmed - fee.MaxLightningFee

SweepLightningResume ==
  /\ pc = "baf" /\ opc = "returned" /\ call[1].method = "SweepLightning"
  /\ LET r == bafRet[1]
         invoice == call[1].args[1]
         description == call[1].args[2]
     IN  IF r.err # NoErr
         THEN Return(Errorf("SweepLightning: %w", r.err), Nil) /\ UNCHANGED postVars
         ELSE IF r.balance = Nil \/ r.fees = Nil
         THEN Panic /\ UNCHANGED postVars
         ELSE newPayment("SweepLightning",
                         sendPaymentRequest(invoice, "LIGHTNING",
                                            LightningSweepAmount(r.fees[1], r.balance[1]),
                                            description, TRUE, FALSE))
  /\ UNCHANGED <<signer, call, bafVars, pureVars>>

SweepOnChain ==
  /\ Quiet
  /\ \E address \in {OnChainAddress}, description \in Descriptions :
       Called("SweepOnChain", "SweepOnChain", <<address, description>>)
  /\ StartBalanceAndFee
  /\ UNCHANGED <<signer, pureVars>>

\* Commission with a fault: the rate is applied to the balance left after
\* the fixed fee
CommissionOfAvailable(fee, bal) ==
  (fee.BtcSendCommissionPercent.num * (bal.Confirmed - fee.BtcFixedFee))
    \div fee.BtcSendCommissionPercent.den

\* commission := fees.BtcSendCommissionPercent * balance.Confirmed
Commission(fee, bal) ==
  (fee.BtcSendCommissionPercent.num * bal.Confirmed) \div fee.BtcSendCommissionPercent.den

SweepOnChainResume ==
  /\ pc = "baf" /\ opc = "returned" /\ call[1].method = "SweepOnChain"
  /\ LET r == bafRet[1]
         address == call[1].args[1]
         description == call[1].args[2]
         confirmed == r.balance[1].Confirmed
         availableBalance == confirmed - r.fees[1].BtcFixedFee
         commission == Commission(r.fees[1], r.balance[1])
         amount == availableBalance - commission
     IN  IF r.err # NoErr
         THEN Return(Errorf("SweepOnChain: %w", r.err), Nil) /\ UNCHANGED postVars
         ELSE IF r.balance = Nil \/ r.fees = Nil
         THEN Panic /\ UNCHANGED postVars
         ELSE IF availableBalance < 0
         THEN Return(<<"confirmed balance insufficient for fixed fee">>, Nil)
              /\ UNCHANGED postVars
         ELSE IF amount <= 0
         THEN Return(<<"available balance insufficient for commission">>, Nil)
              /\ UNCHANGED postVars
         ELSE newPayment("SweepOnChain",
                         sendPaymentRequest(address, "BTC", amount, description, FALSE, TRUE))
  /\ UNCHANGED <<signer, call, bafVars, pureVars>>

(***************************************************************************)
(* Inputs of the decoder                                                   *)
(***************************************************************************)
MaxAmountLen == 3

AmountChars == {"0", "1", "5", "p", "n", "u", "m", "x"}

Strings(chars, n) == UNION {[1..k -> chars] : k \in 0..n}

\* 2^64 - 1, 2^64, and the magnitudes around 2^64 / 100
LongAmounts ==
  { <<"1","8","4","4","6","7","4","4","0","7","3","7","0","9","5","5","1","6","1","5">>,
    <<"1","8","4","4","6","7","4","4","0","7","3","7","0","9","5","5","1","6","1","6">>,
    <<"1","8","4","4","6","7","4","4","0","7","3","7","0","9","5","5","1","6","n">>,
    <<"1","8","4","4","6","7","4","4","0","7","3","7","0","9","5","5","1","7","n">>,
    <<"1","8","4","4","6","7","4","4","0","7","3","7","0","9","u">>,
    <<"1","8","4","4","6","7","4","4","0","7","3","7","1","0","u">>,
    <<"1","8","4","4","6","7","4","4","0","7","3","7","m">>,
    <<"1","8","4","4","6","7","4","4","0","7","3","8","m">>,
    <<"1","8","4","4","6","7","4","4","0">>,
    <<"1","8","4","4","6","7","4","4","1">> }

AmountInputs == Strings(AmountChars, MaxAmountLen) \cup LongAmounts

NotCalled == [err |-> <<"not called">>, msat |-> Zero(U64Limbs)]

NotDecoding == [in |-> <<>>, called |-> FALSE, out |-> NotCalled]

NotParsed == [err |-> <<"not called">>, sat |-> Zero(U64Limbs)]
NotParsing == [in |-> <<>>, called |-> FALSE, out |-> NotParsed]

NotSigning == [a |-> <<>>, b |-> <<>>, called |-> FALSE, outA |-> Nil, outB |-> Nil]

DecodeInit ==
  /\ WalletInit /\ par = NotParsing /\ sgn = NotSigning
  /\ dec \in [in : AmountInputs, called : {FALSE}, out : {NotCalled}]

DecodeAmountCall ==
  /\ ~dec.called
  /\ dec' = [dec EXCEPT !.called = TRUE, !.out = decodeAmount(dec.in)]
  /\ UNCHANGED <<walletVars, par, sgn>>

DecodeNext == DecodeAmountCall

DecodeSpec == DecodeInit /\ [][DecodeNext]_vars

(***************************************************************************)
(* Inputs of parseInvoiceAmount: what stands before the amount, and the    *)
(* amount suffix with 499, 500, 1499, 1500 and 2500 millisatoshi in it     *)
(***************************************************************************)
HrpPrefixes ==
  { <<>>, <<"l">>, <<"l", "n">>, <<"b", "c">>, <<"l", "x", "b", "c">>,
    <<"l", "n", "b">>, <<"l", "n", "b", "c">>, <<"l", "n", "B", "C">>,
    <<"l", "n", "b", "C">>, <<"L", "N", "b", "c">>, <<"l", "n", "t", "b">>,
    <<"l", "n", "b", "c", "r", "t">>, <<"l", "n", "t", "b", "s">> }

HrpAmounts ==
  { <<>>, <<"1">>, <<"1", "m">>, <<"2", "5", "u">>, <<"1", "5", "n">>,
    <<"2", "5", "n">>, <<"1", "0", "p">>, <<"1", "5", "p">>, <<"5", "p">>,
    <<"4", "9", "9", "0", "p">>, <<"5", "0", "0", "0", "p">>,
    <<"1", "4", "9", "9", "0", "p">>, <<"9", "0", "0", "7", "1", "9", "9", "2">>,
    <<"9","0","0","7","1","9","9","2","5","4","7","4","0","9","9","1","0","p">>,
    <<"9","0","0","7","1","9","9","2","5","4","7","4","1","4","9","9","0","p">>,
    <<"1","8","4","4","6","7","4","4","0","7","3","7","0","9","5","5","1","6","1","0","p">>,
    <<"1","8","4","4","6","7","4","4","0","7","3","7","0","9","5","5","1","6","1","5">>,
    <<"1", "x">>, <<"m">>, <<"1", "m", "1">>, <<"m", "1", "m">> }

InvoiceInputs ==
  {Inv(pre \o am) : pre \in HrpPrefixes, am \in HrpAmounts}
  \cup { <<"l", "n", "b", "c", "1", "m", "1", BadData>>,
         <<"l", "n", "b", "c", GoodData>>,
         <<"1", GoodData>> }

ParseInit ==
  /\ WalletInit /\ dec = NotDecoding /\ sgn = NotSigning
  /\ par \in [in : InvoiceInputs, called : {FALSE}, out : {NotParsed}]

ParseInvoiceAmountCall ==
  /\ ~par.called
  /\ par' = [par EXCEPT !.called = TRUE, !.out = parseInvoiceAmount(par.in)]
  /\ UNCHANGED <<walletVars, dec, sgn>>

ParseNext == ParseInvoiceAmountCall

ParseSpec == ParseInit /\ [][ParseNext]_vars

(***************************************************************************)
(* Inputs of SimpleSigner.SignRequest: two requests signed with one secret *)
(***************************************************************************)
SignFields == {<<>>, <<"a">>, <<"a", "b">>}

SignTuples ==
  [endpoint : SignFields, nonce : SignFields, apiToken : SignFields,
   requestBody : SignFields]

SignInit ==
  /\ WalletInit /\ dec = NotDecoding /\ par = NotParsing
  /\ sgn \in [a : SignTuples, b : SignTuples, called : {FALSE},
              outA : {Nil}, outB : {Nil}]

SignRequestCalls ==
  /\ ~sgn.called
  /\ sgn' = [sgn EXCEPT
              !.called = TRUE,
              !.outA = Ptr(SignRequest(ApiSecret, sgn.a.endpoint, sgn.a.nonce,
                                       sgn.a.apiToken, sgn.a.requestBody)),
              !.outB = Ptr(SignRequest(ApiSecret, sgn.b.endpoint, sgn.b.nonce,
                                       sgn.b.apiToken, sgn.b.requestBody))]
  /\ UNCHANGED <<walletVars, dec, par>>

SignNext == SignRequestCalls

SignSpec == SignInit /\ [][SignNext]_vars

(***************************************************************************)
(* The wallet and its reader under any sequence of calls                   *)
(***************************************************************************)
Init == WalletInit /\ dec = NotDecoding /\ par = NotParsing /\ sgn = NotSigning

Next ==
  \/ NewInvoice
  \/ PayInvoice
  \/ PayVariableInvoice
  \/ PayOnChain
  \/ SignerReturns
  \/ TransportDo
  \/ BalanceAndFee
  \/ BalanceAndFeeDone
  \/ SweepLightning
  \/ SweepLightningResume
  \/ SweepOnChain
  \/ SweepOnChainResume
  \/ \E b \in Branches : ReadReturns(b)
  \/ \E b \in Branches : SendErr(b)
  \/ \E b \in Branches : SkipErr(b)
  \/ \E b \in Branches : SendRes(b)
  \/ \E b \in Branches : SkipRes(b)
  \/ OrchReturn
  \/ CancelCaller

Spec == Init /\ [][Next]_vars

\* A goroutine that can take a step takes one; a read need not return and
\* the caller need not make another call.
BranchStep(b) == SendErr(b) \/ SkipErr(b) \/ SendRes(b) \/ SkipRes(b)

FairSpec ==
  /\ Init /\ [][Next]_vars
  /\ \A b \in Branches : WF_vars(BranchStep(b))
  /\ WF_vars(OrchReturn)

(***************************************************************************)
(* Properties of Reader.BalanceAndFee                                      *)
(***************************************************************************)
\* the positions in recv of the messages received on channel ch
On(ch) == {k \in 1..Len(recv) : recv[k].chan = ch}

\* the value received on channel ch, nil when none was
ReceivedOn(ch) == IF On(ch) = {} THEN Nil ELSE recv[CHOOSE k \in On(ch) : TRUE].val

\* C1: BalanceAndFee always returns: the orchestrator is never left in its
\* receive loop with both branch goroutines ended, so that nothing can be
\* sent to it any more.
C1_OrchestratorNeverStranded ==
  ~(opc = "select" /\ \A b \in Branches : bpc[b] = "done")

\* C2: when a read has failed and the caller's context was not cancelled
\* during the call, BalanceAndFee returns a non-nil error; cancel() runs only
\* as the call returns, that is after the error was received, and from then
\* on a read still in flight sees a context that is done.
C2_FailedReadReturnsError ==
  /\ \A b \in Branches :
       (opc = "returned" /\ ~parentCancelled /\ bval[b].err # NoErr)
         => (bafRet # Nil /\ bafRet[1].err # NoErr /\ cancelCalled)
  /\ cancelCalled => opc = "returned"
  /\ \A b \in Branches : (opc = "returned" /\ bpc[b] = "reading") => CtxDone

\* the balance read failed, the error was returned and the fee read is
\* still in flight under a cancelled context
C2_Witness ==
  /\ opc = "returned" /\ ~parentCancelled
  /\ bval["balance"].err # NoErr
  /\ bafRet[1].err = bval["balance"].err
  /\ bpc["fee"] = "reading" /\ CtxDone

\* C3: once BalanceAndFee has returned, every branch goroutine whose read
\* has returned ends: each of its sends has the cancellation signal as an
\* alternative.
C3_BranchesEnd ==
  \A b \in Branches :
    (opc = "returned" /\ bpc[b] \in {"sendErr", "sendRes"}) ~> (bpc[b] = "done")

\* BalanceAndFee returned the fee branch's error; the balance branch, whose
\* read failed too, had nobody to send to and has ended all the same
C3_Witness ==
  /\ opc = "returned" /\ ~parentCancelled
  /\ bval["balance"].err # NoErr /\ bval["fee"].err # NoErr
  /\ bval["balance"].err # bval["fee"].err
  /\ bafRet[1].err = bval["fee"].err
  /\ bpc["balance"] = "done"

(***************************************************************************)
(* Properties of the write calls                                           *)
(***************************************************************************)
Returned(method) == pc = "idle" /\ call # Nil /\ call[1].method = method /\ ret # Nil

Making(method) == call # Nil /\ call[1].method = method

\* a payment request was issued: PostRequest got as far as its signer
Requested == signCall # Nil

\* C4: PayVariableInvoice returns an error wrapping ErrFixedAmount for an
\* invoice whose amount decodes, and issues no payment request for it; it
\* issues one only when decoding yields ErrNoAmount; for every other decode
\* failure it returns an error wrapping ErrInvalidInvoice.
C4_PayVariableInvoiceClassifies ==
  Making("PayVariableInvoice") =>
    LET err == parseInvoiceAmount(call[1].args[1]).err
    IN  /\ (Requested \/ post # Nil) => Is(err, ErrNoAmount)
        /\ (Returned("PayVariableInvoice") /\ err = NoErr)
             => Is(ret[1].err, ErrFixedAmount)
        /\ (Returned("PayVariableInvoice") /\ err # NoErr /\ ~Is(err, ErrNoAmount))
             => Is(ret[1].err, ErrInvalidInvoice)

\* C5: SweepLightning returns an error wrapping ErrInvalidInvoice for an
\* invalid invoice and one wrapping ErrFixedAmount for a fixed-amount
\* invoice, and calls BalanceAndFee and pays only for a variable-amount one.
C5_SweepLightningClassifies ==
  Making("SweepLightning") =>
    LET err == parseInvoiceAmount(call[1].args[1]).err
    IN  /\ (opc # "none" \/ Requested \/ post # Nil) => Is(err, ErrNoAmount)
        /\ (Returned("SweepLightning") /\ err = NoErr)
             => Is(ret[1].err, ErrFixedAmount)
        /\ (Returned("SweepLightning") /\ Is(err, ErrInvalidInvoice))
             => Is(ret[1].err, ErrInvalidInvoice)

\* C6: PayInvoice returns an error wrapping ErrNoAmount for an invoice with
\* no amount and one wrapping ErrInvalidInvoice for an invalid invoice,
\* without invoking the signer or sending a POST; it issues a payment request
\* only when the amount decodes, and the request carries the decoded amount.
C6_PayInvoiceValidatesFirst ==
  Making("PayInvoice") =>
    LET invoice == call[1].args[1]
        description == call[1].args[2]
        decoded == parseInvoiceAmount(invoice)
        request == sendPaymentRequest(invoice, "LIGHTNING", SatInt(decoded.sat),
                                      description, FALSE, FALSE)
    IN  /\ decoded.err # NoErr =>
             /\ Returned("PayInvoice")
             /\ signCall = Nil /\ sigOut = Nil /\ post = Nil
             /\ Is(decoded.err, ErrNoAmount) => Is(ret[1].err, ErrNoAmount)
             /\ Is(decoded.err, ErrInvalidInvoice) => Is(ret[1].err, ErrInvalidInvoice)
        /\ Requested =>
             /\ decoded.err = NoErr
             /\ preq[1].body.Amount = SatInt(decoded.sat)
             /\ signCall[1].requestBody = MarshalSendPayment(request)
        /\ post # Nil => post[1].body = MarshalSendPayment(request)

\* a fixed-amount invoice of 1 mBTC was paid with a request for 100000 sat
C6_Witness ==
  /\ Making("PayInvoice") /\ call[1].args[1] = FixedInvoice
  /\ post # Nil /\ preq[1].body.Amount = 100000

\* the path of a request's URL
UrlPath(url) == SubSeq(url, Len(BaseURL) + 1, Len(url))

\* C7: when the signer refuses, the call returns the signer's error wrapped
\* as a signer error and not as a transport error, and no POST is sent; a
\* POST reaches the transport only after the signer has returned a signature
\* for that very request.
C7_RefusalSendsNothing ==
  /\ (sigOut # Nil /\ sigOut[1].err # NoErr) =>
       /\ post = Nil /\ pc = "idle" /\ ret # Nil
       /\ ret[1].err = Errorf(call[1].label,
                              Errorf("Signer returned error: %w", sigOut[1].err))
       /\ ~Is(ret[1].err, ErrNetwork) /\ ~Is(ret[1].err, ErrStatus)
       /\ ~Is(ret[1].err, <<"POST request failed: %w">>)
  /\ (pc = "send" \/ post # Nil) =>
       /\ signCall # Nil /\ sigOut # Nil
       /\ sigOut[1].err = NoErr /\ sigOut[1].sig # Nil
  /\ post # Nil =>
       /\ signCall[1].endpoint = UrlPath(post[1].url)
       /\ signCall[1].requestBody = post[1].body
       /\ Making("NewInvoice") \/ Making("PayInvoice") \/ Making("PayVariableInvoice")
            \/ Making("PayOnChain") \/ Making("SweepLightning") \/ Making("SweepOnChain")

\* the signer refused a payment and the call returned without a POST
C7_Witness ==
  /\ Returned("PayOnChain") /\ sigOut # Nil /\ sigOut[1].err = ErrRefused
  /\ Is(ret[1].err, ErrRefused) /\ post = Nil

\* C8: every POST carries what was signed: its Nonce and Api-Token headers,
\* its body and its URL path are the nonce, token, body and endpoint passed
\* to the signer, and its Signature header is the signer's output in hex;
\* SimpleSigner's output is the HMAC of endpoint, nonce, token and body
\* concatenated in that order with nothing between them.
C8_PostCarriesWhatWasSigned ==
  post # Nil =>
    LET p == post[1]
        c == signCall[1]
    IN  /\ p.header.Nonce = c.nonce
        /\ p.header.ApiToken = c.apiToken
        /\ p.body = c.requestBody
        /\ p.url = BaseURL \o c.endpoint
        /\ p.header.Signature = HexEncode(sigOut[1].sig)
        /\ signer = "simple" =>
             sigOut[1].sig = Ptr(HmacSha256(ApiSecret,
                                   c.endpoint \o c.nonce \o c.apiToken \o c.requestBody))

\* a POST signed by SimpleSigner was sent
C8_Witness ==
  /\ post # Nil /\ signer = "simple"
  /\ post[1].header.Nonce = Base64([k \in 1..NonceLen |-> 255])
  /\ post[1].body = signCall[1].requestBody

(***************************************************************************)
(* Properties of decodeAmount                                              *)
(***************************************************************************)
\* the magnitude of an amount: all of it when it ends in a digit, all but
\* the unit otherwise
Magnitude(amount) ==
  IF amount[Len(amount)] \in Digits THEN amount
  ELSE SubSeq(amount, 1, Len(amount) - 1)

\* the power of ten by which a unit scales its magnitude to millisatoshi
Scale(unit) ==
  CASE unit = "n" -> 2 [] unit = "u" -> 5 [] unit = "m" -> 8 [] OTHER -> 11

\* C10: decodeAmount follows the multiplier table: 'p' fails below 10 and
\* on a magnitude not divisible by 10 and gives magnitude/10 otherwise; 'n',
\* 'u' and 'm' give the magnitude times 100, 10^5 and 10^8; a suffix ending
\* in a digit is whole bitcoin, times 10^11; an empty suffix, an empty or
\* non-numeric magnitude and any other unit fail.  Magnitudes are those
\* ParseUint accepts, products are those of the integers.
C10_MultiplierTable ==
  dec.called =>
    LET amount == dec.in
        out == dec.out
        unit == amount[Len(amount)]
        mag == ParseUint(Magnitude(amount))
    IN  IF Len(amount) = 0 \/ Len(Magnitude(amount)) = 0 THEN out.err # NoErr
        ELSE IF \E k \in 1..Len(Magnitude(amount)) : Magnitude(amount)[k] \notin Digits
        THEN out.err # NoErr
        ELSE IF unit \notin Digits \cup {"p", "n", "u", "m"} THEN out.err # NoErr
        ELSE IF mag.err # NoErr THEN out.err # NoErr
        ELSE IF unit = "p"
        THEN IF LessThan(mag.val, 10) \/ DivMod(mag.val, 10).r # 0
             THEN out.err # NoErr
             ELSE out.err = NoErr /\ MulAdd(out.msat, 10, 0) = [val |-> mag.val, carry |-> 0]
        ELSE out.err = NoErr /\ Widen(out.msat) = MulPow10(Widen(mag.val), Scale(unit))

\* C11: for every magnitude that fits 64 bits, a millisatoshi value that
\* decodeAmount returns without error for a bare integer or for the units
\* 'm', 'u' and 'n' is the product of the integers, magnitude times scale:
\* the 64-bit multiplication has not wrapped.
C11_ProductNeverWraps ==
  (dec.called /\ dec.out.err = NoErr /\ dec.in[Len(dec.in)] # "p") =>
    Widen(dec.out.msat)
      = MulPow10(Widen(ParseUint(Magnitude(dec.in)).val), Scale(dec.in[Len(dec.in)]))

(***************************************************************************)
(* Properties of parseInvoiceAmount                                        *)
(***************************************************************************)
\* the invoice is one that bech32 decodes
Decodes(invoice) ==
  /\ Len(invoice) >= 3
  /\ invoice[Len(invoice)] = GoodData /\ invoice[Len(invoice) - 1] = "1"

\* the human-readable part of an invoice that bech32 decodes
HrpOf(invoice) == SubSeq(invoice, 1, Len(invoice) - 2)

\* the positions of the digits of a human-readable part
DigitsAt(hrp) == {k \in 1..Len(hrp) : hrp[k] \in Digits}

FirstDigit(hrp) == CHOOSE k \in DigitsAt(hrp) : \A j \in DigitsAt(hrp) : k <= j

\* "bc" in any mix of cases
Mainnet == {<<c1, c2>> : c1 \in {"b", "B"}, c2 \in {"c", "C"}}

\* C12: parseInvoiceAmount keeps its failure kinds apart.  A part of 3 or
\* more characters that begins with "ln" and has no digit yields ErrNoAmount
\* and not ErrInvalidInvoice; a part whose network identifier, between "ln"
\* and the first digit, is not "bc" in some mix of cases yields
\* ErrInvalidInvoice whatever the amount suffix; a part shorter than 3
\* characters or not beginning with "ln", a bad amount suffix and a string
\* that bech32 rejects yield ErrInvalidInvoice; everything else is accepted.
C12_FailureKindsApart ==
  par.called =>
    LET err == par.out.err
        hrp == HrpOf(par.in)
        invalid == Is(err, ErrInvalidInvoice) /\ ~Is(err, ErrNoAmount)
    IN  IF ~Decodes(par.in) THEN invalid
        ELSE IF Len(hrp) < 3 \/ hrp[1] # "l" \/ hrp[2] # "n" THEN invalid
        ELSE IF DigitsAt(hrp) = {}
        THEN Is(err, ErrNoAmount) /\ ~Is(err, ErrInvalidInvoice)
        ELSE IF SubSeq(hrp, 3, FirstDigit(hrp) - 1) \notin Mainnet THEN invalid
        ELSE IF decodeAmount(SubSeq(hrp, FirstDigit(hrp), Len(hrp))).err # NoErr
        THEN invalid
        ELSE err = NoErr

\* all kinds have been seen: a testnet invoice with a well-formed amount
\* was refused as invalid
C12_Witness ==
  /\ par.called /\ par.in = TestnetInvoice
  /\ Is(par.out.err, ErrInvalidInvoice)
  /\ decodeAmount(<<"1", "m">>).err = NoErr

(***************************************************************************)
(* Properties of the sweeps                                                *)
(***************************************************************************)
\* BalanceAndFee has returned two results and no error to the sweep named
SweepRead(method) ==
  /\ Making(method) /\ opc = "returned"
  /\ bafRet[1].err = NoErr /\ bafRet[1].balance # Nil /\ bafRet[1].fees # Nil

\* the sweep has gone on from BalanceAndFee's return
Resumed == pc # "baf"

\* no payment request was issued
NoRequest == signCall = Nil /\ sigOut = Nil /\ post = Nil

\* the payment request got no further than the failing random source
NonceFailed == pc = "idle" /\ ret # Nil /\ Is(ret[1].err, ErrRand) /\ NoRequest

\* C13: SweepOnChain computes available = confirmed - fixedFee and fails
\* when it is negative; commission = rate * confirmed, of the whole
\* confirmed balance; amount = available - commission and fails when it is
\* zero or negative; in both failures no payment request is issued, and
\* otherwise one request is issued and it carries that amount.
C13_SweepOnChainAmount ==
  SweepRead("SweepOnChain") =>
    LET confirmed == bafRet[1].balance[1].Confirmed
        fee == bafRet[1].fees[1]
        rate == fee.BtcSendCommissionPercent
        available == confirmed - fee.BtcFixedFee
        commission == (rate.num * confirmed) \div rate.den
        request(amount) ==
          sendPaymentRequest(call[1].args[1], "BTC", amount, call[1].args[2], FALSE, TRUE)
    IN  IF ~Resumed THEN NoRequest
        ELSE IF available < 0
        THEN /\ Returned("SweepOnChain") /\ NoRequest
             /\ ret[1].err = <<"confirmed balance insufficient for fixed fee">>
        ELSE IF available - commission <= 0
        THEN /\ Returned("SweepOnChain") /\ NoRequest
             /\ ret[1].err = <<"available balance insufficient for commission">>
        ELSE \/ NonceFailed
             \/ /\ Requested
                /\ preq[1].body = request(available - commission)
                /\ signCall[1].requestBody = MarshalSendPayment(preq[1].body)
                /\ post # Nil => post[1].body = signCall[1].requestBody

\* a confirmed balance of 1 BTC with a fixed fee of 0.0001 BTC and a rate of
\* 0.01 was swept with a request for 0.9899 BTC
C13_Witness ==
  /\ SweepRead("SweepOnChain") /\ post # Nil
  /\ bafRet[1].balance[1].Confirmed = 100000000
  /\ bafRet[1].fees[1].BtcFixedFee = 10000
  /\ preq[1].body.Amount = 98990000

\* C18: for a variable-amount invoice and a BalanceAndFee that returned its
\* two results, SweepLightning issues one payment request whose amount is
\* the confirmed balance minus the maximum Lightning fee: no commission is
\* taken and nothing is checked locally, so a difference of zero or less is
\* signed and sent like any other.
C18_SweepLightningAmount ==
  SweepRead("SweepLightning") =>
    LET confirmed == bafRet[1].balance[1].Confirmed
        maxFee == bafRet[1].fees[1].MaxLightningFee
        request == sendPaymentRequest(call[1].args[1], "LIGHTNING", confirmed - maxFee,
                                      call[1].args[2], TRUE, FALSE)
    IN  /\ Is(parseInvoiceAmount(call[1].args[1]).err, ErrNoAmount)
        /\ IF ~Resumed THEN NoRequest
           ELSE \/ NonceFailed
                \/ /\ Requested
                   /\ preq[1].body = request
                   /\ preq[1].endpoint = PaymentEndpoint
                   /\ signCall[1].requestBody = MarshalSendPayment(request)
                   /\ post # Nil => post[1].body = MarshalSendPayment(request)
                   /\ (pc = "idle" /\ sigOut[1].err = NoErr) => post # Nil

\* with nothing confirmed and a fee bound of 2000 satoshi, a request for
\* -2000 satoshi was signed and sent
C18_Witness ==
  /\ SweepRead("SweepLightning") /\ post # Nil
  /\ bafRet[1].balance[1].Confirmed = 0
  /\ preq[1].body.Amount = 0 - 2000 /\ preq[1].body.MaxLightning

\* C19: whenever BalanceAndFee returns a nil error, the balance and the fee
\* estimate it returns are non-nil and come from reads that succeeded, in
\* every interleaving and with the caller's context cancelled during the
\* call or not; so no sweep dereferences a nil result.
C19_NilErrorMeansBothResults ==
  /\ (bafRet # Nil /\ bafRet[1].err = NoErr) =>
       /\ bafRet[1].balance # Nil /\ bafRet[1].fees # Nil
       /\ \A b \in Branches : bval[b].err = NoErr
  /\ ret # Nil => ~ret[1].panic

(***************************************************************************)
(* Properties of the signers                                               *)
(***************************************************************************)
\* C14: what a RemoteSigner transmits to its signing service carries the
\* endpoint, the nonce and the serialized request body that PostRequest
\* passed to the signer, under "endpoint", "nonce" and "body", and the API
\* token is no part of it.
C14_RemoteSignerOmitsToken ==
  remote # Nil =>
    /\ remote[1] = <<"{", "\"body\":">> \o preq[1].bodyBytes
                    \o <<",\"endpoint\":">> \o preq[1].endpoint
                    \o <<",\"nonce\":">> \o preq[1].nonce
                    \o <<"}">>
    /\ \A k \in 1..Len(remote[1]) : remote[1][k] # ApiToken[1]

(***************************************************************************)
(* Properties of the orchestrator's receive loop                           *)
(***************************************************************************)
\* C15: the orchestrator receives at most two messages.  It returns a nil
\* error only after one message from balanceChan and one from feeChan.  The
\* first message from errChan ends the loop: nothing is received after it,
\* and BalanceAndFee returns that error with the other branch's result if
\* it had been received, nil otherwise, and nil for the failing branch,
\* whatever the other branch is doing.
C15_AtMostTwoMessages ==
  /\ Len(recv) <= 2
  /\ \A k \in On("errChan") : k = Len(recv) /\ opc \in {"exit", "returned"}
  /\ opc \in {"exit", "returned"} =>
       /\ bafRet # Nil
       /\ bafRet[1].balance = ReceivedOn("balanceChan")
       /\ bafRet[1].fees = ReceivedOn("feeChan")
       /\ IF bafRet[1].err = NoErr
          THEN /\ Len(recv) = 2
               /\ Cardinality(On("balanceChan")) = 1 /\ Cardinality(On("feeChan")) = 1
          ELSE /\ On("errChan") = {Len(recv)}
               /\ bafRet[1].err = recv[Len(recv)].val
               /\ On(ChanOf(recv[Len(recv)].from)) = {}
               /\ recv[Len(recv)].from = "balance" => bafRet[1].balance = Nil
               /\ recv[Len(recv)].from = "fee" => bafRet[1].fees = Nil
  /\ opc = "select" => bafRet = Nil /\ Len(recv) = i

\* the balance was received, then the fee branch's error: BalanceAndFee
\* returned the balance, no fee estimate and the error
C15_Witness ==
  /\ opc = "returned" /\ Len(recv) = 2
  /\ recv[1].chan = "balanceChan" /\ recv[2].chan = "errChan" /\ recv[2].from = "fee"
  /\ bafRet[1].balance # Nil /\ bafRet[1].balance = recv[1].val
  /\ bafRet[1].fees = Nil /\ bafRet[1].err = recv[2].val

\* C16: in one call each branch gets at most one message through, its error
\* or its result and never both; a result the orchestrator has stored is
\* the one it returns and no later message overwrites it; a received error
\* is the error returned, and nothing of the failed branch is delivered
\* after it.
C16_OneMessagePerBranch ==
  /\ \A b \in Branches : Cardinality({k \in 1..Len(recv) : recv[k].from = b}) <= 1
  /\ \A k \in On("balanceChan") :
       /\ recv[k].from = "balance" /\ balance = recv[k].val
       /\ bafRet # Nil => bafRet[1].balance = recv[k].val
  /\ \A k \in On("feeChan") :
       /\ recv[k].from = "fee" /\ fees = recv[k].val
       /\ bafRet # Nil => bafRet[1].fees = recv[k].val
  /\ On("balanceChan") = {} => balance = Nil
  /\ On("feeChan") = {} => fees = Nil
  /\ \A k \in On("errChan") :
       /\ bafRet # Nil /\ bafRet[1].err = recv[k].val
       /\ \A j \in 1..Len(recv) : j > k => recv[j].from # recv[k].from
       /\ bpc[recv[k].from] \in {"sendRes", "done"}

\* the fee branch's error got through and the branch has ended without its
\* nil result being delivered; the balance received before is still held
C16_Witness ==
  /\ Len(recv) = 2 /\ recv[2].chan = "errChan" /\ recv[2].from = "fee"
  /\ bpc["fee"] = "done" /\ bpc["balance"] = "done"
  /\ balance # Nil /\ balance = recv[1].val /\ fees = Nil

(***************************************************************************)
(* Properties of the conversion to bitcoin                                 *)
(***************************************************************************)
RECURSIVE LeqFrom(_, _, _)
LeqFrom(x, y, n) ==
  IF n = 0 THEN TRUE
  ELSE IF x[n] # y[n] THEN x[n] < y[n]
  ELSE LeqFrom(x, y, n - 1)

\* x <= y for two numbers of the same width
Leq(x, y) == LeqFrom(x, y, Len(x))

\* the millisatoshi count of the amount suffix of an accepted invoice
MsatOf(invoice) ==
  LET hrp == HrpOf(invoice)
  IN  Widen(decodeAmount(SubSeq(hrp, FirstDigit(hrp), Len(hrp))).msat)

\* C17: the amount parseInvoiceAmount returns is the decoded millisatoshi
\* count divided by 1000 and rounded to the nearest whole satoshi, halves
\* away from zero: 1000 * sat <= msat + 500 < 1000 * sat + 1000.  So 499
\* msat gives 0 sat, 500 msat gives 1 sat, 1500 msat gives 2 sat, and an
\* amount under 500 msat such as "10p" is returned as 0 without error.
C17_RoundsToNearestSat ==
  par.called =>
    LET msat == MsatOf(par.in)
        sat == Widen(par.out.sat)
        amount(a) == par.in = Inv(<<"l", "n", "b", "c">> \o a)
    IN  /\ par.out.err = NoErr =>
             /\ Leq(MulAdd(sat, 1000, 0).val, MulAdd(msat, 1, 500).val)
             /\ ~Leq(MulAdd(sat, 1000, 1000).val, MulAdd(msat, 1, 500).val)
             /\ LessThan(msat, 500) => par.out.sat = Zero(U64Limbs)
        /\ amount(<<"4", "9", "9", "0", "p">>) => par.out = [err |-> NoErr, sat |-> <<0, 0, 0, 0>>]
        /\ amount(<<"5", "0", "0", "0", "p">>) => par.out = [err |-> NoErr, sat |-> <<1, 0, 0, 0>>]
        /\ amount(<<"1", "5", "n">>) => par.out = [err |-> NoErr, sat |-> <<2, 0, 0, 0>>]
        /\ amount(<<"1", "0", "p">>) => par.out = [err |-> NoErr, sat |-> <<0, 0, 0, 0>>]

\* C20: the signature binds all four fields: with one secret, two requests
\* that differ in endpoint, nonce, token or body are signed by SimpleSigner
\* over different messages and so get different signatures.
C20_SignatureBindsFields ==
  (sgn.called /\ sgn.a # sgn.b) => sgn.outA # sgn.outB

(***************************************************************************)
(* Properties of the network check                                         *)
(***************************************************************************)
\* the network identifier of a human-readable part that begins with "ln":
\* what stands between "ln" and the first digit, or the end when there is
\* no digit
NetworkOf(hrp) ==
  IF DigitsAt(hrp) = {} THEN SubSeq(hrp, 3, Len(hrp))
  ELSE SubSeq(hrp, 3, FirstDigit(hrp) - 1)

\* the invoice decodes, begins with "ln" and names another network than
\* bitcoin mainnet
NonMainnet(invoice) ==
  /\ Decodes(invoice)
  /\ Len(HrpOf(invoice)) >= 2 /\ SubSeq(HrpOf(invoice), 1, 2) = <<"l", "n">>
  /\ NetworkOf(HrpOf(invoice)) \notin Mainnet

\* C21: an invoice for another network than bitcoin mainnet is never
\* accepted as payable: with or without an amount suffix,
\* parseInvoiceAmount returns an error wrapping ErrInvalidInvoice, never
\* ErrNoAmount and never an amount, so PayVariableInvoice and
\* SweepLightning read nothing and issue no payment request for it.
C21_NonMainnetNeverPayable ==
  ((Making("PayVariableInvoice") \/ Making("SweepLightning"))
     /\ NonMainnet(call[1].args[1])) =>
    LET err == parseInvoiceAmount(call[1].args[1]).err
    IN  /\ Is(err, ErrInvalidInvoice) /\ ~Is(err, ErrNoAmount)
        /\ NoRequest /\ opc = "none"

====
